---- MODULE Spec2Model ----
(***************************************************************************)
(* Model of movie_recommender.py: the heading-state extraction pass with   *)
(* its fallback, the per-item record extractors, the record store          *)
(* cleaning, the genre filter and the recommendation step.                 *)
(*                                                                         *)
(* Text is modelled as a sequence of one-character strings, so that the    *)
(* regular expressions and the str methods of the source are computed      *)
(* character by character.                                                 *)
(***************************************************************************)
EXTENDS Integers, Sequences, FiniteSets, TLC

\* ------------------------------------------------------------------ text

Upper ==
    <<"A", "B", "C", "D", "E", "F", "G", "H", "I", "J", "K", "L", "M", "N", "O", "P", "Q", "R", "S", "T", "U", "V", "W", "X", "Y", "Z">>

LowerAlpha ==
    <<"a", "b", "c", "d", "e", "f", "g", "h", "i", "j", "k", "l", "m", "n", "o", "p", "q", "r", "s", "t", "u", "v", "w", "x", "y", "z">>

Digits ==
    {"0", "1", "2", "3", "4", "5", "6", "7", "8", "9"}

\* str.lower() on one character
LowerChar(c) ==
    IF \E i \in 1..Len(Upper) : Upper[i] = c
    THEN LowerAlpha[CHOOSE i \in 1..Len(Upper) : Upper[i] = c]
    ELSE c

\* str.lower()
Lower(s) ==
    [i \in 1..Len(s) |-> LowerChar(s[i])]

\* the class \s of the re module, on the characters of the model
IsSpace(c) ==
    c \in {" ", "\t"}

\* the class \d
IsDigit(c) ==
    c \in Digits

\* the class \w, which decides the word boundary \b
IsWord(c) ==
    \/ IsDigit(c)
    \/ c = "_"
    \/ \E i \in 1..Len(Upper) : Upper[i] = c \/ LowerAlpha[i] = c

\* str.strip()
Strip(s) ==
    LET keep == {i \in 1..Len(s) : ~IsSpace(s[i])}
    IN  IF keep = {} THEN << >>
        ELSE SubSeq(s, CHOOSE i \in keep : \A j \in keep : i <= j,
                       CHOOSE i \in keep : \A j \in keep : i >= j)

\* p occurs in s at position i (s[i..i+Len(p)-1] = p)
OccursAt(p, s, i) ==
    /\ i >= 1
    /\ i + Len(p) - 1 <= Len(s)
    /\ \A k \in 1..Len(p) : s[i + k - 1] = p[k]

\* the Python test `p in s` on strings
Contains(p, s) ==
    \E i \in 1..(Len(s) + 1) : OccursAt(p, s, i)

\* the length of the whitespace run of s that starts at position i
RECURSIVE SpaceRun(_, _)
SpaceRun(s, i) ==
    IF i <= Len(s) /\ IsSpace(s[i]) THEN 1 + SpaceRun(s, i + 1) ELSE 0

\* str.replace(' ', '')
RECURSIVE RemoveSpaces(_)
RemoveSpaces(s) ==
    IF s = << >> THEN << >>
    ELSE IF Head(s) = " " THEN RemoveSpaces(Tail(s))
    ELSE <<Head(s)>> \o RemoveSpaces(Tail(s))

\* ------------------------------------------------- the genre vocabulary

\* genre_keywords, in the insertion order a dict iterates in
genre_keywords ==
    << [keyword |-> <<"a", "c", "t", "i", "o", "n">>,
        genre_name |-> "Action"],
       [keyword |-> <<"a", "n", "i", "m", "a", "t", "i", "o", "n">>,
        genre_name |-> "Animation"],
       [keyword |-> <<"c", "h", "r", "i", "s", "t", "m", "a", "s">>,
        genre_name |-> "Christmas"],
       [keyword |-> <<"c", "o", "m", "e", "d", "y">>,
        genre_name |-> "Comedy"],
       [keyword |-> <<"d", "i", "s", "a", "s", "t", "e", "r">>,
        genre_name |-> "Disaster"],
       [keyword |-> <<"d", "o", "c", "u", "m", "e", "n", "t", "a", "r", "y">>,
        genre_name |-> "Documentary"],
       [keyword |-> <<"f", "a", "n", "t", "a", "s", "y">>,
        genre_name |-> "Fantasy"],
       [keyword |-> <<"h", "o", "r", "r", "o", "r">>,
        genre_name |-> "Horror"],
       [keyword |-> <<"l", "g", "b", "t">>,
        genre_name |-> "LGBT"],
       [keyword |-> <<"m", "u", "s", "i", "c", "a", "l">>,
        genre_name |-> "Musical"],
       [keyword |-> <<"r", "o", "m", "a", "n", "c", "e">>,
        genre_name |-> "Romance"],
       [keyword |-> <<"s", "c", "i", "e", "n", "c", "e", " ", "f", "i", "c", "t", "i", "o", "n">>,
        genre_name |-> "Science Fiction"],
       [keyword |-> <<"s", "c", "i", "-", "f", "i">>,
        genre_name |-> "Science Fiction"],
       [keyword |-> <<"s", "i", "l", "e", "n", "t">>,
        genre_name |-> "Silent"],
       [keyword |-> <<"s", "p", "o", "r", "t", "s">>,
        genre_name |-> "Sports"],
       [keyword |-> <<"s", "u", "p", "e", "r", "h", "e", "r", "o">>,
        genre_name |-> "Superhero"],
       [keyword |-> <<"w", "a", "r">>,
        genre_name |-> "War"],
       [keyword |-> <<"w", "e", "s", "t", "e", "r", "n">>,
        genre_name |-> "Western"] >>

\* a scan without its break: the last keyword found decides
FirstKeywordNoBreak(heading) ==
    LET hits == {i \in 1..Len(genre_keywords) :
                    Contains(genre_keywords[i].keyword, heading)}
    IN  IF hits = {} THEN 0
        ELSE CHOOSE i \in hits : \A j \in hits : i >= j

\* the position of the first keyword of genre_keywords, in iteration order,
\* that is a substring of the heading; 0 when the loop ends without a break
FirstKeyword(heading) ==
    LET hits == {i \in 1..Len(genre_keywords) :
                    Contains(genre_keywords[i].keyword, heading)}
    IN  IF hits = {} THEN 0
        ELSE CHOOSE i \in hits : \A j \in hits : i <= j

\* ------------------------------------------------ heading normalisation

\* re.sub(r'\[.*?\]', '', s)
RECURSIVE RemoveBrackets(_)
RemoveBrackets(s) ==
    IF s = << >> THEN << >>
    ELSE LET close == {j \in 2..Len(s) : s[j] = "]"}
         IN  IF Head(s) = "[" /\ close # {}
             THEN LET j == CHOOSE j \in close : \A k \in close : j <= k
                  IN  RemoveBrackets(SubSeq(s, j + 1, Len(s)))
             ELSE <<Head(s)>> \o RemoveBrackets(Tail(s))

EditMarker ==
    <<"(", "e", "d", "i", "t", ")">>

\* re.sub(r'\s*\(edit\)\s*', '', s)
RECURSIVE RemoveEdit(_)
RemoveEdit(s) ==
    IF s = << >> THEN << >>
    ELSE LET k == SpaceRun(s, 1)
         IN  IF OccursAt(EditMarker, s, 1 + k)
             THEN LET after == 1 + k + Len(EditMarker)
                  IN  RemoveEdit(SubSeq(s, after + SpaceRun(s, after), Len(s)))
             ELSE <<Head(s)>> \o RemoveEdit(Tail(s))

\* heading_text and clean_heading of the loop body
CleanHeading(text) ==
    LET heading_text == Lower(Strip(text))
        unbracketed  == Strip(RemoveBrackets(heading_text))
    IN  Strip(RemoveEdit(unbracketed))

\* ---------------------------------------------------- record extractors

NA ==
    "N/A"

\* s has four digits at p..p+3
DigitsAt(s, p) ==
    /\ p >= 1
    /\ p + 3 <= Len(s)
    /\ \A k \in 0..3 : IsDigit(s[p + k])

\* s has "(dddd)" at p..p+5
ParenYearAt(s, p) ==
    /\ p >= 1
    /\ p + 5 <= Len(s)
    /\ s[p] = "("
    /\ DigitsAt(s, p + 1)
    /\ s[p + 5] = ")"

\* the least element of a non-empty set of integers
Least(S) ==
    CHOOSE i \in S : \A j \in S : i <= j

\* r'^(.*?)\s+\((\d{4})\)' matched at the start of text: << >> when it does
\* not match, else <<group 1 stripped, group 2>>
MatchParenYear(text) ==
    LET ends == {i \in 0..Len(text) :
                    /\ SpaceRun(text, i + 1) >= 1
                    /\ ParenYearAt(text, i + 1 + SpaceRun(text, i + 1))}
    IN  IF ends = {} THEN << >>
        ELSE LET i == Least(ends)
                 p == i + 1 + SpaceRun(text, i + 1)
             IN  <<Strip(SubSeq(text, 1, i)), SubSeq(text, p + 1, p + 4)>>

\* r'^(.*?)\s*-\s*(\d{4})'
MatchDashYear(text) ==
    LET dash(i) == i + 1 + SpaceRun(text, i + 1)
        num(i)  == dash(i) + 1 + SpaceRun(text, dash(i) + 1)
        ends == {i \in 0..Len(text) :
                    /\ dash(i) <= Len(text)
                    /\ text[dash(i)] = "-"
                    /\ DigitsAt(text, num(i))}
    IN  IF ends = {} THEN << >>
        ELSE LET i == Least(ends)
             IN  <<Strip(SubSeq(text, 1, i)), SubSeq(text, num(i), num(i) + 3)>>

\* r'^(.*?),\s*(\d{4})'
MatchCommaYear(text) ==
    LET num(i) == i + 2 + SpaceRun(text, i + 2)
        ends == {i \in 0..Len(text) :
                    /\ i + 1 <= Len(text)
                    /\ text[i + 1] = ","
                    /\ DigitsAt(text, num(i))}
    IN  IF ends = {} THEN << >>
        ELSE LET i == Least(ends)
             IN  <<Strip(SubSeq(text, 1, i)), SubSeq(text, num(i), num(i) + 3)>>

\* the verb cues of the sentence pattern, each after \s+
VerbCues ==
    { <<"w", "a", "s">>, <<"i", "s">>, <<"h", "a", "s", " ", "b", "e", "e", "n">>, <<"w", "o", "n">>, <<"r", "e", "c", "e", "i", "v", "e", "d">> }

\* r"^([^.!?]+?)(?:\s+was|\s+is|\s+has been|\s+won|\s+received)" matched
\* at the start of text: << >>, or <<group 1>>
MatchSentence(text) ==
    LET ends == {i \in 1..Len(text) :
                    /\ \A k \in 1..i : text[k] \notin {".", "!", "?"}
                    /\ SpaceRun(text, i + 1) >= 1
                    /\ \E cue \in VerbCues :
                          OccursAt(cue, text, i + 1 + SpaceRun(text, i + 1))}
    IN  IF ends = {} THEN << >>
        ELSE <<SubSeq(text, 1, Least(ends))>>

\* re.sub(r'\s*\([^)]*\)\s*', ' ', s)
RECURSIVE ReplaceParens(_)
ReplaceParens(s) ==
    IF s = << >> THEN << >>
    ELSE LET open  == 1 + SpaceRun(s, 1)
             close == {j \in (open + 1)..Len(s) : s[j] = ")"}
         IN  IF open <= Len(s) /\ s[open] = "(" /\ close # {}
             THEN LET after == Least(close) + 1
                  IN  <<" ">> \o
                      ReplaceParens(SubSeq(s, after + SpaceRun(s, after), Len(s)))
             ELSE <<Head(s)>> \o ReplaceParens(Tail(s))

\* re.search(r'\b(19|20)\d{2}\b', text): the match, or "" when there is none
SearchYear(text) ==
    LET at == {p \in 1..Len(text) :
                  /\ DigitsAt(text, p)
                  /\ \/ text[p] = "1" /\ text[p + 1] = "9"
                     \/ text[p] = "2" /\ text[p + 1] = "0"
                  /\ p = 1 \/ ~IsWord(text[p - 1])
                  /\ p + 4 > Len(text) \/ ~IsWord(text[p + 4])}
    IN  IF at = {} THEN << >> ELSE SubSeq(text, Least(at), Least(at) + 3)

\* a row of the Title, Genre, Rating, Year table
Row(title, genre, year) ==
    [Title |-> title, Genre |-> genre, Rating |-> NA, Year |-> year]

\* extract_movie_from_li(li, genre) on the text of li: << >> for None, else
\* the one row returned
extract_movie_from_li(text, genre) ==
    LET match == MatchParenYear(text)
        sentence_match == MatchSentence(text)
    IN  IF match # << >>
        THEN <<Row(match[1], genre, match[2])>>
        ELSE IF sentence_match # << >>
        THEN LET title == Strip(ReplaceParens(Strip(sentence_match[1])))
             IN  IF Len(title) > 2
                 THEN <<Row(title, genre, SearchYear(text))>>
                 ELSE << >>
        ELSE << >>

\* the words that mark an obvious non-movie
StopWords ==
    { <<"l", "i", "s", "t">>, <<"c", "a", "t", "e", "g", "o", "r", "y">>, <<"s", "e", "c", "t", "i", "o", "n">>, <<"s", "e", "e", " ", "a", "l", "s", "o">> }

\* the test that skips a candidate title
Rejected(title) ==
    \/ Len(title) < 3
    \/ \E word \in StopWords : Contains(word, Lower(title))

\* re.search(patterns[k], text), for the three patterns in list order
PatternMatch(k, text) ==
    CASE k = 1 -> MatchParenYear(text)
      [] k = 2 -> MatchDashYear(text)
      [] k = 3 -> MatchCommaYear(text)

GeneralGenre ==
    "General"

\* the loop `for pattern in patterns` from pattern k on, for one list item:
\* the rows it appends. A rejected candidate executes `continue`, which
\* goes on to the next pattern of this loop.
RECURSIVE TryPatterns(_, _)
TryPatterns(text, k) ==
    IF k > 3 THEN << >>
    ELSE LET match == PatternMatch(k, text)
         IN  IF match = << >> THEN TryPatterns(text, k + 1)
             ELSE IF Rejected(match[1]) THEN TryPatterns(text, k + 1)
             ELSE <<Row(match[1], GeneralGenre, match[2])>>

\* the body of `for li in ul.find_all('li')` of scrape_general_movies
GeneralItem(text) ==
    TryPatterns(text, 1)

\* ------------------------------------------------------- table operations

\* the elements of a sequence
Range(s) ==
    {s[i] : i \in 1..Len(s)}

\* the rows of df at the positions in keep, in the order of df
RECURSIVE Pick(_, _)
Pick(df, keep) ==
    IF df = << >> THEN << >>
    ELSE Pick(SubSeq(df, 1, Len(df) - 1), keep) \o
         (IF Len(df) \in keep THEN <<df[Len(df)]>> ELSE << >>)

\* drop_duplicates() without its subset: whole rows are compared
DropDuplicatesWholeRows(df) ==
    Pick(df, {i \in 1..Len(df) : \A j \in 1..(i - 1) : df[j] # df[i]})

\* df.drop_duplicates(subset=['Title', 'Year']): the first row of each
\* (Title, Year) pair is kept
DropDuplicates(df) ==
    Pick(df, {i \in 1..Len(df) :
                 \A j \in 1..(i - 1) :
                     ~(df[j].Title = df[i].Title /\ df[j].Year = df[i].Year)})

\* df[df['Title'].str.len() > 0]
KeepTitled(df) ==
    Pick(df, {i \in 1..Len(df) : Len(df[i].Title) > 0})

\* ------------------------------------------------ load_and_clean_movies

\* a missing value of the table (NaN)
NaN ==
    <<"NaN">>

\* the field texts pd.read_csv reads as missing, among those of the model:
\* the empty field and "N/A"
NaValues ==
    { << >>, <<"N", "/", "A">> }

\* one field of the file as pd.read_csv gives it
ReadField(field) ==
    IF field \in NaValues THEN NaN ELSE field

\* pd.read_csv(csv_file), on the rows below the header
ReadCsv(rows) ==
    [i \in 1..Len(rows) |->
        [Title  |-> ReadField(rows[i].Title),
         Genre  |-> ReadField(rows[i].Genre),
         Rating |-> ReadField(rows[i].Rating),
         Year   |-> ReadField(rows[i].Year)]]

\* df.dropna(subset=['Title', 'Genre'])
DropNa(df) ==
    Pick(df, {i \in 1..Len(df) : df[i].Title # NaN /\ df[i].Genre # NaN})

\* a replace that stops after the first space
RemoveFirstSpace(s) ==
    LET spaces == {i \in 1..Len(s) : s[i] = " "}
    IN  IF spaces = {} THEN s
        ELSE SubSeq(s, 1, Least(spaces) - 1) \o SubSeq(s, Least(spaces) + 1, Len(s))

NormalizeGenreFirstSpace(genre) ==
    IF genre = NaN THEN NaN ELSE RemoveFirstSpace(Lower(genre))

\* .str.lower().str.replace(' ', '') on one value of the Genre column
NormalizeGenre(genre) ==
    IF genre = NaN THEN NaN ELSE RemoveSpaces(Lower(genre))

\* df['Genre'] = df['Genre'].str.lower().str.replace(' ', '')
NormalizeGenres(df) ==
    [i \in 1..Len(df) |-> [df[i] EXCEPT !.Genre = NormalizeGenre(@)]]

\* the three cleaning statements of load_and_clean_movies, in order
CleanSteps(df) ==
    DropDuplicates(NormalizeGenres(DropNa(df)))

\* ---------------------------------------------- filter_movies_by_genres

\* str(g) of a value of the Genre column
StrOf(value) ==
    IF value = NaN THEN <<"n", "a", "n">> ELSE value

\* g.strip().lower().replace(' ', '') of one chosen genre
NormalizeQuery(g) ==
    RemoveSpaces(Lower(Strip(g)))

\* a mask that compares for equality instead of containment
GenreMatchesExact(value, genres) ==
    \E k \in 1..Len(genres) : genres[k] = Lower(StrOf(value))

\* the lambda of the mask: any(gen in str(g).lower() for gen in genres),
\* genres being the normalized queries
GenreMatches(value, genres) ==
    \E k \in 1..Len(genres) : Contains(genres[k], Lower(StrOf(value)))

\* filter_movies_by_genres(df, genres)
filter_movies_by_genres(df, genres) ==
    LET normalized == [k \in 1..Len(genres) |-> NormalizeQuery(genres[k])]
    IN  Pick(df, {i \in 1..Len(df) : GenreMatches(df[i].Genre, normalized)})

\* ------------------------------------------------------- get_all_genres

\* str.split(','): the pieces of s between its commas
RECURSIVE SplitComma(_)
SplitComma(s) ==
    LET commas == {i \in 1..Len(s) : s[i] = ","}
    IN  IF commas = {} THEN <<s>>
        ELSE <<SubSeq(s, 1, Least(commas) - 1)>> \o
             SplitComma(SubSeq(s, Least(commas) + 1, Len(s)))

ExcludedGenres ==
    { <<"u", "n", "k", "n", "o", "w", "n">>, <<"n", "/", "a">> }

\* get_all_genres(df), as the set the function collects
get_all_genres(df) ==
    LET parts == UNION {Range(SplitComma(StrOf(df[i].Genre))) :
                           i \in {j \in 1..Len(df) : df[j].Genre # NaN}}
        clean == {Lower(Strip(part)) : part \in parts}
    IN  {g \in clean : g # << >> /\ g \notin ExcludedGenres}

\* ------------------------------------------------ get_genre_suggestions

\* the length of the longest common prefix of a[i..] and b[j..]
RECURSIVE CommonRun(_, _, _, _)
CommonRun(a, i, b, j) ==
    IF i <= Len(a) /\ j <= Len(b) /\ a[i] = b[j]
    THEN 1 + CommonRun(a, i + 1, b, j + 1)
    ELSE 0

\* the blocks <<i, j, k>> with a[i..i+k-1] = b[j..j+k-1], k >= 1, that no
\* longer block from the same i and j extends
Blocks(a, b) ==
    {<<p[1], p[2], CommonRun(a, p[1], b, p[2])>> :
        p \in {q \in (1..Len(a)) \X (1..Len(b)) : a[q[1]] = b[q[2]]}}

\* SequenceMatcher.find_longest_match: the longest block, of those the one
\* that starts earliest in a, and of those the one that starts earliest in b
LongestMatch(blocks) ==
    CHOOSE t \in blocks :
        \A u \in blocks :
            \/ t[3] > u[3]
            \/ t[3] = u[3] /\ t[1] < u[1]
            \/ t[3] = u[3] /\ t[1] = u[1] /\ t[2] <= u[2]

\* the sum of the sizes of SequenceMatcher(None, a, b).get_matching_blocks()
RECURSIVE MatchTotal(_, _)
MatchTotal(a, b) ==
    LET blocks == Blocks(a, b)
    IN  IF blocks = {} THEN 0
        ELSE LET t == LongestMatch(blocks)
             IN  t[3]
                 + MatchTotal(SubSeq(a, 1, t[1] - 1), SubSeq(b, 1, t[2] - 1))
                 + MatchTotal(SubSeq(a, t[1] + t[3], Len(a)),
                              SubSeq(b, t[2] + t[3], Len(b)))

\* the characters of the model in code point order
CodeOrder ==
    <<"\t", " ", "!", "(", ")", ",", "-", ".", "/", "0", "1", "2", "3", "4", "5", "6", "7", "8", "9", "?", "A", "B", "C", "D", "E", "F", "G", "H", "I", "J", "K", "L", "M", "N", "O", "P", "Q", "R", "S", "T", "U", "V", "W", "X", "Y", "Z", "[", "]", "_", "a", "b", "c", "d", "e", "f", "g", "h", "i", "j", "k", "l", "m", "n", "o", "p", "q", "r", "s", "t", "u", "v", "w", "x", "y", "z">>

Ord(c) ==
    CHOOSE i \in 1..Len(CodeOrder) : CodeOrder[i] = c

\* the Python comparison a > b of two strings
RECURSIVE StrGreater(_, _)
StrGreater(a, b) ==
    IF a = << >> THEN FALSE
    ELSE IF b = << >> THEN TRUE
    ELSE IF Head(a) # Head(b) THEN Ord(Head(a)) > Ord(Head(b))
    ELSE StrGreater(Tail(a), Tail(b))

\* ratio() of SequenceMatcher with seq1 = x and seq2 = word, as the pair
\* <<numerator, denominator>> of 2.0 * matches / length
Ratio(x, word) ==
    IF Len(x) + Len(word) = 0 THEN <<1, 1>>
    ELSE <<2 * MatchTotal(x, word), Len(x) + Len(word)>>

\* r >= cutoff, for the cutoff 0.6 = 6 / 10 of get_genre_suggestions
AtLeastCutoff(r) ==
    10 * r[1] >= 6 * r[2]

\* (score, x) tuples as heapq.nlargest orders them: <<r, x>> above <<s, y>>
Above(r, x, s, y) ==
    \/ r[1] * s[2] > s[1] * r[2]
    \/ r[1] * s[2] = s[1] * r[2] /\ StrGreater(x, y)

\* difflib.get_close_matches(word, possibilities, n=3, cutoff=0.6)
get_close_matches(word, possibilities) ==
    LET score == [x \in possibilities |-> Ratio(x, word)]
        close == {x \in possibilities : AtLeastCutoff(score[x])}
        rank  == [x \in close |->
                     Cardinality({y \in close : Above(score[y], y, score[x], x)})]
        best  == {x \in close : rank[x] < 3}
    IN  [i \in 1..Cardinality(best) |-> CHOOSE x \in best : rank[x] = i - 1]

\* get_genre_suggestions(chosen_genres, all_genres): the dict, as a function
\* on the chosen genres that have a close match
get_genre_suggestions(chosen_genres, all_genres) ==
    LET matches == [g \in Range(chosen_genres) |->
                       get_close_matches(Lower(g), all_genres)]
    IN  [g \in {h \in Range(chosen_genres) : matches[h] # << >>} |-> matches[g]]

\* a sample size without the min
SampleSizeRequested(num_recommendations, available) ==
    num_recommendations

\* sample_size of recommend_movies
SampleSize(num_recommendations, available) ==
    IF num_recommendations <= available THEN num_recommendations ELSE available

\* ------------------------------------------------------------- the state

VARIABLES
    pc,             \* scrape_wikipedia_best_movies: "loop" while all_elements
                    \* is iterated, then "done"
    seen,           \* the number of elements of all_elements iterated so far
    element,        \* element.name of the element iterated last
    clean_heading,  \* clean_heading of the heading iterated last
    keyword,        \* position in genre_keywords of the keyword that broke
                    \* the scan of that heading, 0 when none did
    current_genre,
    movies,
    uls,            \* the li texts of the ul elements iterated so far
    fallback_ran,   \* scrape_general_movies was called
    general,        \* movies of scrape_general_movies
    returned,       \* "pending", "df" or "None"
    result          \* the rows of the DataFrame returned

VARIABLES
    li_text,        \* the text of one li
    li_pc,          \* "start", then the extractor applied to it
    li_rows         \* the rows that extractor gives for it

VARIABLES
    csv_exists,     \* os.path.exists(csv_file)
    csv,            \* the rows of the file below its header
    loaded,         \* load_and_clean_movies: "pending", "df" or "None"
    df,             \* the rows load_and_clean_movies returns
    recleaned,      \* "no", or "yes" once the cleaning statements ran on df
    df_again,       \* what they gave
    outcome,        \* recommend_movies: "none" before the first call, then
                    \* "no_match", "displayed" or "error" for the last call
    chosen_genres,
    num_recommendations,
    filtered,
    suggest_called, \* get_genre_suggestions was called in the last call
    suggestions,
    sampled,        \* filtered.sample was called in the last call
    drawn,          \* the positions in filtered of the rows sampled, in order
    recommendations

scrapeVars ==
    <<pc, seen, element, clean_heading, keyword, current_genre, movies, uls,
      fallback_ran, general, returned, result>>

itemVars ==
    <<li_text, li_pc, li_rows>>

storeVars ==
    <<csv_exists, csv, loaded, df, recleaned, df_again>>

queryVars ==
    <<outcome, chosen_genres, num_recommendations, filtered, suggest_called,
      suggestions, sampled, drawn, recommendations>>

vars ==
    <<scrapeVars, itemVars, storeVars, queryVars>>

\* ------------------------------------------------------------ the inputs

\* the bound on the elements of one document
MaxNodes ==
    4

\* the bound on the pieces a heading text is put together from
MaxHeadingFrags ==
    3

\* the bound on the headings of a run of headings alone
MaxHeadingRun ==
    1

\* the bound on the pieces an li text is put together from
MaxItemFrags ==
    4

\* the bound on the rows of the file
MaxRows ==
    3

\* the bound on the counts asked for, beside the default
MaxCount ==
    1

\* num_recommendations=5
DefaultCount ==
    5

HeadingNames ==
    {"h2", "h3", "h4"}

HeadingFragments ==
    { <<"S", "c", "i", "-", "F", "i", " ", "a", "n", "d", " ">>,
      <<"F", "a", "n", "t", "a", "s", "y", " ", "F", "i", "l", "m", "s">>,
      <<" ", "[", "e", "d", "i", "t", "]">>,
      <<"S", "c", "i", "e", "n", "c", "e", " ", "F", "i", "c", "t", "i", "o", "n">>,
      <<" ", "(", "e", "d", "i", "t", ")", " ">>,
      <<"A", "w", "a", "r", "d", "s">> }

\* the heading texts of the documents: two that contain a keyword and one
\* that contains none
DocHeadings ==
    { <<"F", "a", "n", "t", "a", "s", "y", " ", "F", "i", "l", "m", "s", " ", "[", "e", "d", "i", "t", "]">>, <<"A", "w", "a", "r", "d", "s">>, <<"H", "i", "s", "t", "o", "r", "y">> }

\* the texts put together from at most k fragments
RECURSIVE HeadingTexts(_)
HeadingTexts(k) ==
    IF k = 0 THEN {<< >>}
    ELSE LET shorter == HeadingTexts(k - 1)
         IN  shorter \cup {a \o f : a \in shorter, f \in HeadingFragments}

RichHeadings ==
    HeadingTexts(MaxHeadingFrags)

\* li texts, as li.get_text(" ", strip=True) gives them
ListPool ==
    { << <<"H", "e", "a", "t", " ", "(", "1", "9", "9", "5", ")">>, <<"B", "i", "g", " ", "(", "f", "i", "l", "m", ")", " ", "w", "a", "s", " ", "r", "e", "l", "e", "a", "s", "e", "d", " ", "i", "n", " ", "1", "9", "8", "8", ".">> >>,
      << <<"C", "o", "n", "t", "e", "n", "t", "s">> >>,
      << <<"J", "a", "w", "s", ",", " ", "1", "9", "7", "5">>, <<"H", "e", "a", "t", " ", "-", " ", "1", "9", "9", "5", " ", "l", "i", "s", "t", " ", "(", "2", "0", "0", "0", ")">> >> }

ItemFragments ==
    { <<"H", "e", "a", "t">>,
      <<" ", "-", " ", "1", "9", "9", "5">>,
      <<" ", "l", "i", "s", "t">>,
      <<" ", "(", "2", "0", "0", "0", ")">>,
      <<",", " ", "1", "9", "9", "9">>,
      <<" ", "w", "a", "s">>,
      <<" ", "(", "x", ")", " ">>,
      <<"U", "p">> }

RECURSIVE ItemTexts(_)
ItemTexts(k) ==
    IF k = 0 THEN {<< >>}
    ELSE LET shorter == ItemTexts(k - 1)
         IN  shorter \cup {a \o f : a \in shorter, f \in ItemFragments}

\* a row of the file
CsvRow(title, genre, year) ==
    [Title |-> title, Genre |-> genre, Rating |-> <<"N", "/", "A">>, Year |-> year]

RowPool ==
    { CsvRow(<<"J", "a", "w", "s">>, <<"D", "r", "a", "m", "a">>, <<"1", "9", "7", "5">>),
      CsvRow(<<"B", "i", "g">>, <<"A", "c", "t", "i", "o", "n", " ", "C", "o", "m", "e", "d", "y">>, <<"1", "9", "8", "8">>),
      CsvRow(<<"A", "l", "i", "e", "n">>, <<"S", "c", "i", " ", "F", "i", ",", " ", "N", "o", "i", "r">>, << >>),
      CsvRow(<<"A", "l", "i", "e", "n">>, <<"A", "c", "t", "i", "o", "n">>, << >>),
      CsvRow(<< >>, <<"A", "c", "t", "i", "o", "n">>, <<"1", "9", "9", "5">>),
      CsvRow(<<"U", "p">>, << >>, <<"2", "0", "0", "9">>) }

\* the files of at most k rows
RECURSIVE CsvFiles(_)
CsvFiles(k) ==
    IF k = 0 THEN {<< >>}
    ELSE LET shorter == CsvFiles(k - 1)
         IN  shorter \cup {Append(rows, row) : rows \in shorter, row \in RowPool}

QueryPool ==
    { << >>,
      << <<"a", "c", "t", "i", "o", "n">> >>,
      << <<"\t", "S", "c", "i", " ", "F", "i", " ">> >>,
      << <<"C", "O", "M", "E", "D", "Y">>, <<"w", "e", "s", "t", "e", "r", "n">> >>,
      << <<"a", "k", "s", "h", "u", "n">>, <<"d", "r", "a", "m", "m", "a">> >>,
      << <<"n", "o", "i", "r">>, <<"D", "r", "a", "m", "a">> >> }

Counts ==
    (0..MaxCount) \cup {DefaultCount}

DefaultGenre ==
    "General"

ScrapeIdle ==
    /\ pc = "loop"
    /\ seen = 0
    /\ element = "none"
    /\ clean_heading = << >>
    /\ keyword = 0
    /\ current_genre = DefaultGenre
    /\ movies = << >>
    /\ uls = << >>
    /\ fallback_ran = FALSE
    /\ general = << >>
    /\ returned = "pending"
    /\ result = << >>

ItemIdle ==
    /\ li_text = << >>
    /\ li_pc = "start"
    /\ li_rows = << >>

StoreIdle ==
    /\ csv_exists = FALSE
    /\ csv = << >>
    /\ loaded = "pending"
    /\ df = << >>
    /\ recleaned = "no"
    /\ df_again = << >>

QueryIdle ==
    /\ outcome = "none"
    /\ chosen_genres = << >>
    /\ num_recommendations = DefaultCount
    /\ filtered = << >>
    /\ suggest_called = FALSE
    /\ suggestions = << >>
    /\ sampled = FALSE
    /\ drawn = << >>
    /\ recommendations = << >>

\* a run of scrape_wikipedia_best_movies, from the start of its loop
ScrapeInit ==
    ScrapeIdle /\ ItemIdle /\ StoreIdle /\ QueryIdle

\* one li text and the extractors applied to it
ItemInit ==
    /\ ScrapeIdle /\ StoreIdle /\ QueryIdle
    /\ li_text \in {Strip(text) : text \in ItemTexts(MaxItemFrags)}
    /\ li_pc = "start"
    /\ li_rows = << >>

\* a file, or none, before load_and_clean_movies
StoreInit ==
    /\ ScrapeIdle /\ ItemIdle /\ QueryIdle
    /\ csv_exists \in BOOLEAN
    /\ csv \in IF csv_exists THEN CsvFiles(MaxRows) ELSE {<< >>}
    /\ loaded = "pending"
    /\ df = << >>
    /\ recleaned = "no"
    /\ df_again = << >>

\* ----------------------------------- scrape_wikipedia_best_movies: actions

\* a scan that falls back to the default when no keyword is found
GenreAfterHeadingReset(current, found) ==
    IF found = 0 THEN DefaultGenre ELSE genre_keywords[found].genre_name

\* current_genre after the keyword scan of a heading: genre_name of the
\* keyword at position found, where the scan broke; unchanged when found
\* is 0, the scan having ended without a break
GenreAfterHeading(current, found) ==
    IF found = 0 THEN current ELSE genre_keywords[found].genre_name

\* clean_heading and the outcome of the keyword scan, for every heading
\* text of the model
HeadingPass ==
    [text \in RichHeadings \cup DocHeadings |->
        [clean |-> CleanHeading(text),
         keyword |-> FirstKeyword(CleanHeading(text))]]

\* an elif without its second half
ListActiveAlways(genre) ==
    TRUE

\* the second half of `elif element.name == 'ul' and current_genre != "General"`
ListActive(genre) ==
    genre # DefaultGenre

\* the rows the loop over element.find_all('li') appends
RECURSIVE ExtractList(_, _)
ExtractList(items, genre) ==
    IF items = << >> THEN << >>
    ELSE extract_movie_from_li(Head(items), genre) \o
         ExtractList(Tail(items), genre)

\* one iteration of the loop, on a heading element
Heading(name, text) ==
    /\ pc = "loop"
    /\ seen' = seen + 1
    /\ element' = name
    /\ clean_heading' = HeadingPass[text].clean
    /\ keyword' = HeadingPass[text].keyword
    /\ current_genre' = GenreAfterHeading(current_genre, HeadingPass[text].keyword)
    /\ UNCHANGED <<pc, movies, uls, fallback_ran, general, returned, result>>
    /\ UNCHANGED <<itemVars, storeVars, queryVars>>

\* one iteration of the loop, on a ul element
ListNode(items) ==
    /\ pc = "loop"
    /\ seen' = seen + 1
    /\ element' = "ul"
    /\ movies' = IF ListActive(current_genre)
                 THEN movies \o ExtractList(items, current_genre)
                 ELSE movies
    /\ uls' = Append(uls, items)
    /\ UNCHANGED <<pc, clean_heading, keyword, current_genre, fallback_ran,
                   general, returned, result>>
    /\ UNCHANGED <<itemVars, storeVars, queryVars>>

\* a fallback taken also when a single row was found
FewGenreMovies(found) ==
    Len(found) < 2

\* `if not movies`
NoGenreMovies(found) ==
    found = << >>

\* the end of the function when movies is not empty
ReturnScoped ==
    /\ pc = "loop"
    /\ ~NoGenreMovies(movies)
    /\ pc' = "done"
    /\ result' = KeepTitled(DropDuplicates(movies))
    /\ returned' = "df"
    /\ UNCHANGED <<seen, element, clean_heading, keyword, current_genre, movies,
                   uls, fallback_ran, general>>
    /\ UNCHANGED <<itemVars, storeVars, queryVars>>

\* the rows scrape_general_movies appends for the li texts of one ul
RECURSIVE GeneralList(_)
GeneralList(items) ==
    IF items = << >> THEN << >>
    ELSE GeneralItem(Head(items)) \o GeneralList(Tail(items))

\* movies of scrape_general_movies: every li of every ul of the document
RECURSIVE GeneralMovies(_)
GeneralMovies(lists) ==
    IF lists = << >> THEN << >>
    ELSE GeneralList(Head(lists)) \o GeneralMovies(Tail(lists))

\* the end of the function when movies is empty: scrape_general_movies
ReturnFallback ==
    /\ pc = "loop"
    /\ NoGenreMovies(movies)
    /\ pc' = "done"
    /\ fallback_ran' = TRUE
    /\ general' = GeneralMovies(uls)
    /\ IF GeneralMovies(uls) # << >>
       THEN /\ result' = DropDuplicates(GeneralMovies(uls))
            /\ returned' = "df"
       ELSE /\ result' = << >>
            /\ returned' = "None"
    /\ UNCHANGED <<seen, element, clean_heading, keyword, current_genre, movies,
                   uls>>
    /\ UNCHANGED <<itemVars, storeVars, queryVars>>

ScrapeNext ==
    \/ \E name \in HeadingNames, text \in DocHeadings :
          seen < MaxNodes /\ Heading(name, text)
    \/ \E items \in ListPool :
          seen < MaxNodes /\ ListNode(items)
    \/ ReturnScoped
    \/ ReturnFallback

Spec ==
    ScrapeInit /\ [][ScrapeNext]_vars

\* the headings alone, over every text of at most MaxHeadingFrags fragments
HeadingNext ==
    \E text \in RichHeadings :
        seen < MaxHeadingRun /\ Heading("h2", text)

SpecHeading ==
    ScrapeInit /\ [][HeadingNext]_vars

\* ------------------------------------------------- the extractors, per li

\* extract_movie_from_li on the li text
ExtractScoped ==
    /\ li_pc = "start"
    /\ li_pc' = "scoped"
    /\ li_rows' = extract_movie_from_li(li_text, "Horror")
    /\ UNCHANGED <<li_text, scrapeVars, storeVars, queryVars>>

\* the body of the li loop of scrape_general_movies on the li text
ExtractGeneral ==
    /\ li_pc = "start"
    /\ li_pc' = "general"
    /\ li_rows' = GeneralItem(li_text)
    /\ UNCHANGED <<li_text, scrapeVars, storeVars, queryVars>>

ItemNext ==
    \/ ExtractScoped
    \/ ExtractGeneral

SpecItem ==
    ItemInit /\ [][ItemNext]_vars

\* ------------------------------------- load_and_clean_movies and the loop

\* load_and_clean_movies when the file is missing or holds no row
LoadNone ==
    /\ loaded = "pending"
    /\ ~csv_exists \/ ReadCsv(csv) = << >>
    /\ loaded' = "None"
    /\ UNCHANGED <<csv_exists, csv, df, recleaned, df_again>>
    /\ UNCHANGED <<scrapeVars, itemVars, queryVars>>

\* load_and_clean_movies on a file with rows
LoadAndClean ==
    /\ loaded = "pending"
    /\ csv_exists /\ ReadCsv(csv) # << >>
    /\ loaded' = "df"
    /\ df' = CleanSteps(ReadCsv(csv))
    /\ UNCHANGED <<csv_exists, csv, recleaned, df_again>>
    /\ UNCHANGED <<scrapeVars, itemVars, queryVars>>

\* the cleaning statements of load_and_clean_movies once more, on its result
CleanAgain ==
    /\ loaded = "df"
    /\ recleaned = "no"
    /\ recleaned' = "yes"
    /\ df_again' = CleanSteps(df)
    /\ UNCHANGED <<csv_exists, csv, loaded, df>>
    /\ UNCHANGED <<scrapeVars, itemVars, queryVars>>

\* an emptiness test that also takes a single row for nothing
IsEmptyOrSingle(frame) ==
    Len(frame) < 2

\* `if filtered.empty`
IsEmpty(frame) ==
    frame = << >>

\* recommend_movies(df, genres, count) when nothing matches, for any count
RecommendNoMatch(genres) ==
    /\ loaded = "df" /\ df # << >>
    /\ outcome = "none"
    /\ LET matching == filter_movies_by_genres(df, genres)
       IN  /\ IsEmpty(matching)
           /\ filtered' = matching
    /\ outcome' = "no_match"
    /\ chosen_genres' = genres
    /\ suggest_called' = TRUE
    /\ suggestions' = get_genre_suggestions(genres, get_all_genres(df))
    /\ sampled' = FALSE
    /\ drawn' = << >>
    /\ recommendations' = << >>
    /\ num_recommendations' \in Counts
    /\ UNCHANGED <<scrapeVars, itemVars, storeVars>>

\* the orders in which DataFrame.sample(n) can draw n of `available` rows
\* without replacement
Draws(n, available) ==
    {order \in [1..n -> 1..available] :
        \A i, j \in 1..n : i # j => order[i] # order[j]}

\* recommend_movies(df, genres, count) when some row matches, for any
\* count; sample(n) raises ValueError when n is larger than the population
RecommendSample(genres) ==
    /\ loaded = "df" /\ df # << >>
    /\ outcome = "none"
    /\ chosen_genres' = genres
    /\ suggest_called' = FALSE
    /\ suggestions' = << >>
    /\ sampled' = TRUE
    /\ LET matching == filter_movies_by_genres(df, genres)
       IN  /\ ~IsEmpty(matching)
           /\ filtered' = matching
           /\ \E count \in Counts :
                 LET sample_size == SampleSize(count, Len(matching))
                 IN  /\ num_recommendations' = count
                     /\ IF sample_size > Len(matching)
                        THEN /\ outcome' = "error"
                             /\ drawn' = << >>
                             /\ recommendations' = << >>
                        ELSE /\ outcome' = "displayed"
                             /\ \E order \in Draws(sample_size, Len(matching)) :
                                   /\ drawn' = order
                                   /\ recommendations' =
                                         [i \in 1..sample_size |->
                                             matching[order[i]]]
    /\ UNCHANGED <<scrapeVars, itemVars, storeVars>>

\* back in the loop of main: the next input is read, and nothing of the
\* call before is kept
AskAgain ==
    /\ outcome # "none"
    /\ outcome' = "none"
    /\ chosen_genres' = << >>
    /\ num_recommendations' = DefaultCount
    /\ filtered' = << >>
    /\ suggest_called' = FALSE
    /\ suggestions' = << >>
    /\ sampled' = FALSE
    /\ drawn' = << >>
    /\ recommendations' = << >>
    /\ UNCHANGED <<scrapeVars, itemVars, storeVars>>

StoreNext ==
    \/ LoadNone
    \/ LoadAndClean
    \/ CleanAgain

SpecStore ==
    StoreInit /\ [][StoreNext]_vars

QueryNext ==
    \/ LoadNone
    \/ LoadAndClean
    \/ \E genres \in QueryPool : RecommendNoMatch(genres)
    \/ \E genres \in QueryPool : RecommendSample(genres)
    \/ AskAgain

SpecQuery ==
    StoreInit /\ [][QueryNext]_vars

\* ------------------------------------------------------------ properties

\* rows i and j of df have the same (Title, Year) pair
SameKey(a, b) ==
    a.Title = b.Title /\ a.Year = b.Year

\* kept holds exactly the rows of found that no earlier row of found shares
\* its (Title, Year) pair with, each once
FirstOfEachKey(kept, found) ==
    /\ \A i, j \in 1..Len(kept) : i # j => ~SameKey(kept[i], kept[j])
    /\ \A i \in 1..Len(kept) :
          \E j \in 1..Len(found) :
              /\ found[j] = kept[i]
              /\ \A k \in 1..(j - 1) : ~SameKey(found[k], found[j])
    /\ \A j \in 1..Len(found) :
          \E i \in 1..Len(kept) : SameKey(kept[i], found[j])

\* C1: no record of the heading-state pass carries the default genre
\* "General", neither in movies while the pass runs nor in the frame the
\* pass returns; a ul iterated while current_genre is "General" therefore
\* appends nothing.
C1_NoDefaultGenre ==
    /\ \A i \in 1..Len(movies) : movies[i].Genre # "General"
    /\ (returned = "df" /\ ~fallback_ran) =>
           \A i \in 1..Len(result) : result[i].Genre # "General"

\* a ul with extractable items was skipped under "General", and a later ul
\* gave all of movies
C1_Witness ==
    /\ Len(uls) = 2
    /\ ExtractList(uls[1], "Horror") # << >>
    /\ movies # << >>
    /\ Len(movies) = Len(ExtractList(uls[2], "Horror"))
    /\ current_genre # "General"

\* the keywords of genre_keywords found in a heading
KeywordsIn(heading) ==
    {i \in 1..Len(genre_keywords) : Contains(genre_keywords[i].keyword, heading)}

\* C2: after a heading whose normalized text contains more than one keyword,
\* the scan has stopped at the keyword earliest in the enumeration order and
\* current_genre is its label, wherever the keywords stand in the text;
\* "sci-fi and fantasy films" gives "Fantasy", and a heading with both
\* "science fiction" and "sci-fi" and no earlier keyword resolves through
\* "science fiction" (position 12, before "sci-fi" at 13).
C2_EarliestKeywordWins ==
    (element # "none" /\ Cardinality(KeywordsIn(clean_heading)) > 1) =>
        /\ keyword \in KeywordsIn(clean_heading)
        /\ \A i \in KeywordsIn(clean_heading) : keyword <= i
        /\ current_genre = genre_keywords[keyword].genre_name
        /\ clean_heading = <<"s", "c", "i", "-", "f", "i", " ", "a", "n", "d", " ", "f", "a", "n", "t", "a", "s", "y", " ", "f", "i", "l", "m", "s">> => current_genre = "Fantasy"
        /\ ({12, 13} \subseteq KeywordsIn(clean_heading)
              /\ \A i \in KeywordsIn(clean_heading) : i >= 12) => keyword = 12

\* the heading of the example, whose first keyword in the text is "sci-fi"
C2_Witness ==
    /\ element = "h2"
    /\ clean_heading = <<"s", "c", "i", "-", "f", "i", " ", "a", "n", "d", " ", "f", "a", "n", "t", "a", "s", "y", " ", "f", "i", "l", "m", "s">>
    /\ KeywordsIn(clean_heading) = {7, 13}
    /\ current_genre = "Fantasy"

\* C3, as stated: the frame returned is exactly the records the
\* heading-state pass emitted when it emitted any, with no fallback run;
\* else exactly the fallback's records; else None.
C3_ExactlyThoseRecords ==
    pc = "done" =>
        IF movies # << >>
        THEN ~fallback_ran /\ returned = "df" /\ Range(result) = Range(movies)
        ELSE /\ fallback_ran
             /\ IF general # << >>
                THEN returned = "df" /\ Range(result) = Range(general)
                ELSE returned = "None"

\* C3, amended: the frame returned holds the first record of each
\* (Title, Year) pair of the records the heading-state pass emitted when it
\* emitted any, with no fallback run and no fallback record; else the first
\* record of each pair of the fallback's records; else None.
C3_StrictPriority ==
    pc = "done" =>
        IF movies # << >>
        THEN /\ ~fallback_ran
             /\ general = << >>
             /\ returned = "df"
             /\ FirstOfEachKey(result, movies)
        ELSE /\ fallback_ran
             /\ general = GeneralMovies(uls)
             /\ IF general # << >>
                THEN returned = "df" /\ FirstOfEachKey(result, general)
                ELSE returned = "None" /\ result = << >>

\* the heading-state pass emitted two records of one (Title, Year) pair
\* under two genres, and the fallback would have had records of its own
C3_Witness ==
    /\ pc = "done"
    /\ ~fallback_ran
    /\ Len(result) < Len(movies)
    /\ Range(result) # Range(movies)
    /\ GeneralMovies(uls) # << >>

\* C4: the rows load_and_clean_movies returns have pairwise distinct
\* (Title, Year) pairs, and every Title is present and longer than 0.
C4_DistinctKeysAndTitles ==
    loaded = "df" =>
        /\ \A i, j \in 1..Len(df) : i # j => ~SameKey(df[i], df[j])
        /\ \A i \in 1..Len(df) : df[i].Title # NaN /\ Len(df[i].Title) > 0

\* a file with two rows of one (Title, Year) pair and a row without a title
C4_Witness ==
    /\ loaded = "df"
    /\ df # << >>
    /\ \E i, j \in 1..Len(csv) :
          /\ i # j
          /\ SameKey(csv[i], csv[j])
          /\ csv[i].Title # << >>
          /\ csv[i].Genre # csv[j].Genre
          /\ csv[i].Genre # << >> /\ csv[j].Genre # << >>
    /\ \E k \in 1..Len(csv) : csv[k].Title = << >>

\* C5: the cleaning statements applied to the rows load_and_clean_movies
\* returned give those rows again: none dropped, merged or changed.
C5_CleaningIdempotent ==
    recleaned = "yes" => df_again = df

\* the first cleaning dropped a row and rewrote a genre with two spaces
C5_Witness ==
    /\ recleaned = "yes"
    /\ df # << >>
    /\ Len(df) < Len(csv)
    /\ \E i \in 1..Len(df) : df[i].Genre = <<"s", "c", "i", "f", "i", ",", "n", "o", "i", "r">>

\* C6: after a call of recommend_movies, filtered holds exactly the rows of
\* df whose genre contains, as a substring, one of the chosen genres
\* trimmed, lowercased and with its spaces removed, in the order of df.
C6_FilterExact ==
    outcome # "none" =>
        LET wanted == {i \in 1..Len(df) :
                          \E k \in 1..Len(chosen_genres) :
                              Contains(RemoveSpaces(Lower(Strip(chosen_genres[k]))),
                                       df[i].Genre)}
        IN  /\ Len(filtered) = Cardinality(wanted)
            /\ \A i \in 1..Len(df) : (i \in wanted) <=> (df[i] \in Range(filtered))
            /\ \A a, b \in 1..Len(filtered) :
                  a < b => \E i, j \in wanted :
                              i < j /\ df[i] = filtered[a] /\ df[j] = filtered[b]

\* the store of the example: genres action, actioncomedy and drama, and the
\* query ["action"], which selects the first two
C6_Witness ==
    /\ outcome = "displayed"
    /\ chosen_genres = << <<"a", "c", "t", "i", "o", "n">> >>
    /\ {df[i].Genre : i \in 1..Len(df)} = { <<"a", "c", "t", "i", "o", "n">>, <<"a", "c", "t", "i", "o", "n", "c", "o", "m", "e", "d", "y">>, <<"d", "r", "a", "m", "a">> }
    /\ {filtered[i].Genre : i \in 1..Len(filtered)} = { <<"a", "c", "t", "i", "o", "n">>, <<"a", "c", "t", "i", "o", "n", "c", "o", "m", "e", "d", "y">> }

\* C7: in every call of recommend_movies exactly one path runs: with a
\* non-empty filtered, get_genre_suggestions is not called and rows are
\* sampled; with an empty filtered, get_genre_suggestions is called and no
\* row is sampled or displayed.
C7_OnePath ==
    outcome # "none" =>
        /\ filtered # << >> => (~suggest_called /\ sampled /\ DOMAIN suggestions = {})
        /\ filtered = << >> =>
              (suggest_called /\ ~sampled /\ recommendations = << >> /\ drawn = << >>)
        /\ suggest_called # sampled

\* a call with nothing matching, for which a suggestion was found
C7_Witness ==
    /\ outcome = "no_match"
    /\ filtered = << >>
    /\ suggest_called
    /\ DOMAIN suggestions # {}

\* C8: a call that samples displays exactly min(N, S) rows of filtered, at
\* pairwise distinct positions, and does not fail, N being
\* num_recommendations and S the number of rows of filtered.
C8_SampleBounded ==
    sampled =>
        /\ outcome = "displayed"
        /\ Len(recommendations) =
              (IF num_recommendations < Len(filtered)
               THEN num_recommendations ELSE Len(filtered))
        /\ Len(drawn) = Len(recommendations)
        /\ \A i \in 1..Len(drawn) :
              /\ drawn[i] \in 1..Len(filtered)
              /\ recommendations[i] = filtered[drawn[i]]
        /\ \A i, j \in 1..Len(drawn) :
              i # j => (drawn[i] # drawn[j] /\ recommendations[i] # recommendations[j])

\* five rows asked for of a filtered set of two
C8_Witness ==
    /\ outcome = "displayed"
    /\ num_recommendations = 5
    /\ Len(filtered) = 2
    /\ Len(recommendations) = 2
    /\ recommendations[1] # recommendations[2]

\* C9: a heading that contains no keyword leaves current_genre unchanged,
\* a ul never changes it, it changes only at a heading that contains a
\* keyword, and the rows a ul appends all carry current_genre.
C9_StickyGenre ==
    [][/\ (seen' = seen + 1 /\ element' = "ul") => current_genre' = current_genre
       /\ (seen' = seen + 1 /\ element' \in HeadingNames
              /\ KeywordsIn(clean_heading') = {}) => current_genre' = current_genre
       /\ current_genre' # current_genre =>
              (seen' = seen + 1 /\ element' \in HeadingNames
                  /\ KeywordsIn(clean_heading') # {})
       /\ (seen' = seen + 1 /\ element' = "ul") =>
              /\ Len(movies') >= Len(movies)
              /\ SubSeq(movies', 1, Len(movies)) = movies
              /\ \A i \in (Len(movies) + 1)..Len(movies') :
                    movies'[i].Genre = current_genre
      ]_vars

\* a genre heading, then a heading without a keyword, then a ul whose rows
\* carry the genre of the first heading
C9_Witness ==
    /\ seen = 3
    /\ element = "ul"
    /\ Len(uls) = 1
    /\ keyword = 0
    /\ clean_heading = <<"h", "i", "s", "t", "o", "r", "y">>
    /\ movies # << >>
    /\ \A i \in 1..Len(movies) : movies[i].Genre = "Fantasy"

\* the patterns of scrape_general_movies that match a text
MatchingPatterns(text) ==
    {k \in 1..3 : PatternMatch(k, text) # << >>}

\* C10: for one li of the fallback, the first of the three patterns that
\* matches decides: its candidate is the li's record, or, when the
\* candidate is rejected, the li has no record; no pattern matching means
\* no record.
C10_FirstMatchDecides ==
    li_pc = "general" =>
        IF MatchingPatterns(li_text) = {} THEN li_rows = << >>
        ELSE LET match == PatternMatch(Least(MatchingPatterns(li_text)), li_text)
             IN  IF Rejected(match[1]) THEN li_rows = << >>
                 ELSE li_rows = <<Row(match[1], "General", match[2])>>
====
